---- MODULE Spec2Model ----
(***************************************************************************)
(* A model of virgltrace: the tracing session driven by main() in          *)
(* src/main.rs against the kernel tracing filesystem, and the              *)
(* interruptible sleep of src/sleep.rs; and the Tracer of src/ftrace.rs,   *)
(* the path accessor with a latched error, driven by any sequence of its   *)
(* operations.                                                             *)
(*                                                                         *)
(* The filesystem is the environment.  It is fixed for a whole session:    *)
(* `present` is the set of candidate roots whose `trace` file exists,      *)
(* `faults` the set of paths that are missing, not writable or not         *)
(* readable, `clock_text` the text read from trace_clock.  Every           *)
(* File::create / write / read the program issues is appended to `log`.    *)
(***************************************************************************)
EXTENDS Integers, Sequences, FiniteSets, TLC

VARIABLES
    argv,         \* env::args().skip(1): the arguments in the order given
    args,         \* enabled_categories: the set of command-line arguments
    present,      \* candidate roots whose `trace` file exists
    faults,       \* <<kind, path>>: kind is "missing", "nowrite" or "noread"
    clock_text,   \* content of trace_clock, a sequence of characters
    pc,           \* the statement of main() that runs next
    tracefs,      \* the root returned by find_tracefs, None before
    log,          \* every write, truncate and read issued, in order
    exit_status,  \* <<>> while running, then <<status>> of the process
    panic_msg,    \* the message of the panic that ended the process, or <<>>
    \* src/sleep.rs
    secs,         \* the argument of sleep()
    s_pc,         \* the statement of sleep() that runs next
    h_pc,         \* the statement of signal_handler that runs next, or None
    SIGNAL,       \* the static slot: None or "Some"
    sigint,       \* the disposition of SIGINT: "SIG_DFL" or "signal_handler"
    mutex,        \* who holds signal.0: None, "sleep" or "signal_handler"
    notified,     \* a notify_one reached the waiting thread
    elapsed,      \* seconds spent in wait_timeout
    delivered,    \* number of SIGINTs delivered so far
    outcome,      \* "running", "deadlock", "panic" or "killed"
    \* src/ftrace.rs
    t_tracefs,    \* Tracer::tracefs, "" after Tracer::new()
    last_err_kind,\* Tracer::last_err_kind: None or an io::ErrorKind
    last_err_path,\* Tracer::last_err_path: None or a path
    t_log         \* every call of a Tracer operation, in order

mainVars == <<argv, args, present, faults, clock_text, pc, tracefs, log,
              exit_status, panic_msg>>

sleepVars == <<secs, s_pc, h_pc, SIGNAL, sigint, mutex, notified, elapsed,
               delivered, outcome>>

tracerVars == <<t_tracefs, last_err_kind, last_err_path, t_log>>

vars == <<mainVars, sleepVars, tracerVars>>

\* what the session of main() leaves alone, and what sleep() leaves alone
OutsideMain == <<sleepVars, tracerVars>>

OutsideSleep == <<mainVars, tracerVars>>

OutsideTracer == <<mainVars, sleepVars>>

None == "None"

(***************************************************************************)
(* Bounds of the model.                                                    *)
(***************************************************************************)
\* sleep() is called with at most this many seconds
MaxSecs == 2
\* at most this many SIGINTs are sent to the process
MaxSignals == 1
\* at most this many operations are called on a Tracer
MaxOps == 3
\* the environment departs from the nominal one (both roots mounted, every
\* file accessible, trace_clock reads NominalClock) in at most this many ways
MaxFaults == 1

(***************************************************************************)
(* EventCatalog: src/main.rs, CATEGORIES.                                  *)
(***************************************************************************)
Ev(s, n, r) == [subsystem |-> s, name |-> n, required |-> r]

CATEGORIES == <<
    [name |-> "sched", events |-> <<
        Ev("sched", "sched_switch", TRUE),
        Ev("sched", "sched_wakeup", TRUE),
        Ev("sched", "sched_waking", FALSE),
        Ev("sched", "sched_blocked_reason", FALSE),
        Ev("sched", "sched_cpu_hotplug", FALSE),
        Ev("sched", "sched_pi_setprio", FALSE),
        Ev("cgroup", None, FALSE) >>],
    [name |-> "freq", events |-> <<
        Ev("power", "cpu_frequency", TRUE),
        Ev("power", "clock_set_rate", FALSE),
        Ev("power", "clock_disable", FALSE),
        Ev("power", "clock_enable", FALSE),
        Ev("clk", "clk_set_rate", FALSE),
        Ev("clk", "clk_disable", FALSE),
        Ev("clk", "clk_enable", FALSE),
        Ev("power", "cpu_frequency_limits", FALSE) >>],
    [name |-> "idle", events |-> <<
        Ev("power", "cpu_idle", TRUE) >>],
    [name |-> "irq", events |-> <<
        Ev("irq", None, TRUE) >>],
    [name |-> "drm", events |-> <<
        Ev("drm", None, TRUE) >>],
    [name |-> "fence", events |-> <<
        Ev("dma_fence", None, TRUE),
        Ev("sync_trace", "sync_timeline", TRUE) >>],
    [name |-> "virtio-gpu", events |-> <<
        Ev("virtio_gpu", None, TRUE) >>],
    [name |-> "i915", events |-> <<
        Ev("i915", "i915_request_queue", TRUE),
        Ev("i915", "i915_request_add", TRUE),
        Ev("i915", "i915_request_retire", TRUE),
        Ev("i915", "i915_request_wait_begin", TRUE),
        Ev("i915", "i915_request_wait_end", TRUE),
        Ev("i915", "intel_gpu_freq_change", TRUE),
        Ev("i915", "i915_gem_evict", TRUE),
        Ev("i915", "i915_gem_evict_node", TRUE),
        Ev("i915", "i915_gem_evict_vm", TRUE),
        Ev("i915", "i915_gem_shrink", TRUE),
        Ev("i915", "i915_pipe_update_start", TRUE),
        Ev("i915", "i915_pipe_update_end", TRUE) >>],
    [name |-> "kvm", events |-> <<
        Ev("kvm", "kvm_entry", TRUE),
        Ev("kvm", "kvm_exit", TRUE),
        Ev("kvm", "kvm_userspace_exit", TRUE),
        Ev("kvm", "kvm_mmio", TRUE),
        Ev("kvm", "kvm_set_irq", TRUE),
        Ev("kvm", "kvm_msi_set_irq", TRUE) >>],
    [name |-> "syscalls", events |-> <<
        Ev("syscalls", None, TRUE) >> ] >>

NCat == Len(CATEGORIES)

CategoryNames == {CATEGORIES[i].name : i \in 1..NCat}

(***************************************************************************)
(* Paths are sequences of components, as Path::join / PathBuf::push build  *)
(* them.                                                                   *)
(***************************************************************************)
tracefs_dirs == << "/sys/kernel/tracing", "/sys/kernel/debug/tracing" >>

Roots == {tracefs_dirs[i] : i \in 1..Len(tracefs_dirs)}

\* the path below the tracing root (faults are stated relative to the root)
Rel(path) == IF path # <<>> /\ path[1] \in Roots THEN Tail(path) ELSE path

SubsystemDir(root, event) == <<root, "events", event.subsystem>>

EnablePath(root, event) ==
    SubsystemDir(root, event)
        \o (IF event.name = None THEN <<>> ELSE <<event.name>>)
        \o <<"enable">>

\* Path::exists
exists(path) == <<"missing", Rel(path)>> \notin faults

(***************************************************************************)
(* Text: a string as the sequence of its characters.                       *)
(***************************************************************************)
Chars(s) ==
    CASE s = "boot"     -> <<"b","o","o","t">>
      [] s = "mono"     -> <<"m","o","n","o">>
      [] s = "global"   -> <<"g","l","o","b","a","l">>
      [] s = "local"    -> <<"l","o","c","a","l">>
      [] s = "counter"  -> <<"c","o","u","n","t","e","r">>
      [] s = "mono_raw" -> <<"m","o","n","o","_","r","a","w">>
      [] s = " "        -> <<" ">>
      [] s = "["        -> <<"[">>
      [] s = "]"        -> <<"]">>

RECURSIVE Text(_)
\* the text spelled by a sequence of words
Text(words) ==
    IF words = <<>> THEN <<>> ELSE Chars(Head(words)) \o Text(Tail(words))

\* str::contains: pat occurs in val as a substring
contains(val, pat) ==
    \E k \in 0..(Len(val) - Len(pat)) :
        \A j \in 1..Len(pat) : val[k + j] = pat[j]

NominalClock == Text(<<"[", "local", "]", " ", "global", " ", "counter", " ",
                       "mono", " ", "mono_raw", " ", "boot">>)

ClockTexts == {
    NominalClock,
    Text(<<"boot", " ", "mono", " ", "global">>),
    Text(<<"boot", " ", "mono", " ", "[", "global", "]">>),
    Text(<<"[", "boot", "]", " ", "mono", " ", "global">>),
    Text(<<"local", " ", "[", "mono", "]", " ", "global">>),
    Text(<<"[", "local", "]", " ", "global", " ", "mono">>),
    Text(<<"[", "global", "]", " ", "local">>),
    Text(<<"[", "local", "]", " ", "mono_raw">>),
    Text(<<"[", "local", "]", " ", "global", " ", "mono_raw">>),
    Text(<<"[", "local", "]", " ", "counter">>) }

(***************************************************************************)
(* File helpers of src/main.rs.  Each returns the log entry of the         *)
(* operation; `ok` is the io::Result.                                      *)
(***************************************************************************)
Entry(op, path, val, ok) == [op |-> op, path |-> path, val |-> val, ok |-> ok]

write_file(path, val) ==
    Entry("write", path, val, <<"nowrite", Rel(path)>> \notin faults)

truncate_file(path) ==
    Entry("truncate", path, "", <<"nowrite", Rel(path)>> \notin faults)

read_file(path) ==
    Entry("read", path, "", <<"noread", Rel(path)>> \notin faults)

bool_to_str(val) == IF val THEN "1" ELSE "0"

RECURSIVE find_tracefs_from_last(_)
\* find_tracefs_from with the candidates preferred in reverse order
find_tracefs_from_last(k) ==
    IF k > Len(tracefs_dirs) THEN None
    ELSE LET later == find_tracefs_from_last(k + 1) IN
         IF later # None THEN later
         ELSE IF tracefs_dirs[k] \in present THEN tracefs_dirs[k]
         ELSE None

RECURSIVE find_tracefs_from(_)
\* the `for &dir in tracefs_dirs.iter()` loop, from index k on
find_tracefs_from(k) ==
    IF k > Len(tracefs_dirs) THEN None
    ELSE IF tracefs_dirs[k] \in present THEN tracefs_dirs[k]
    ELSE find_tracefs_from(k + 1)

find_tracefs == find_tracefs_from(1)

set_option(root, option, val) == write_file(<<root, "options", option>>, val)

set_buffer_size_kb(root, size) == write_file(<<root, "buffer_size_kb">>, size)

set_current_tracer(root, tracer) == write_file(<<root, "current_tracer">>, tracer)

set_ftrace_filter(root) == truncate_file(<<root, "set_ftrace_filter">>)

set_tracing_on(root, enable) ==
    write_file(<<root, "tracing_on">>, bool_to_str(enable))

clear_trace(root) == truncate_file(<<root, "trace">>)

preferred_clocks == << "boot", "mono", "global" >>

RECURSIVE scan_clocks_any_bracket(_, _, _)
\* scan_clocks with the write elided when any clock is bracketed
scan_clocks_any_bracket(path, val, k) ==
    IF k > Len(preferred_clocks) THEN [entries |-> <<>>, result |-> "panic"]
    ELSE LET clock == preferred_clocks[k] IN
         IF contains(val, Chars(clock))
         THEN IF contains(val, <<"[">>)
              THEN [entries |-> <<>>, result |-> "ok"]
              ELSE LET w == write_file(path, clock) IN
                   [entries |-> <<w>>,
                    result |-> IF w.ok THEN "ok" ELSE "err"]
         ELSE scan_clocks_any_bracket(path, val, k + 1)

RECURSIVE scan_clocks(_, _, _)
\* the `for &clock in preferred_clocks.iter()` loop, from index k on
scan_clocks(path, val, k) ==
    IF k > Len(preferred_clocks) THEN [entries |-> <<>>, result |-> "panic"]
    ELSE LET clock == preferred_clocks[k] IN
         IF contains(val, Chars(clock))
         THEN IF contains(val, <<"[">> \o Chars(clock) \o <<"]">>)
              THEN [entries |-> <<>>, result |-> "ok"]
              ELSE LET w == write_file(path, clock) IN
                   [entries |-> <<w>>,
                    result |-> IF w.ok THEN "ok" ELSE "err"]
         ELSE scan_clocks(path, val, k + 1)

set_trace_clock(root) ==
    LET path == <<root, "trace_clock">>
        r == read_file(path)
    IN  IF ~r.ok THEN [entries |-> <<r>>, result |-> "err"]
        ELSE LET s == scan_clocks(path, clock_text, 1) IN
             [entries |-> <<r>> \o s.entries, result |-> s.result]

dump_trace(root, filename) ==
    LET r == read_file(<<root, "trace">>) IN
    IF ~r.ok THEN [entries |-> <<r>>, ok |-> FALSE]
    ELSE LET w == write_file(<<filename>>, "<trace buffer>") IN
         [entries |-> <<r, w>>, ok |-> w.ok]

RECURSIVE enable_events_strict(_, _, _, _, _)
\* enable_events with a failed write of a required event ending the loop
\* when disabling too
enable_events_strict(root, events, j, enable, acc) ==
    IF j > Len(events) THEN [entries |-> acc, ok |-> TRUE]
    ELSE LET event == events[j] IN
         IF ~exists(SubsystemDir(root, event))
         THEN IF event.required
              THEN [entries |-> acc, ok |-> FALSE]
              ELSE enable_events_strict(root, events, j + 1, enable, acc)
         ELSE LET w == write_file(EnablePath(root, event), bool_to_str(enable))
              IN  IF ~w.ok /\ event.required
                  THEN [entries |-> Append(acc, w), ok |-> FALSE]
                  ELSE enable_events_strict(root, events, j + 1, enable,
                                            Append(acc, w))

RECURSIVE enable_events_unprobed(_, _, _, _, _)
\* an event loop without the Path::exists probe of line 407
enable_events_unprobed(root, events, j, enable, acc) ==
    IF j > Len(events) THEN [entries |-> acc, ok |-> TRUE]
    ELSE LET event == events[j]
             w == Entry("write", EnablePath(root, event), bool_to_str(enable),
                        /\ exists(SubsystemDir(root, event))
                        /\ write_file(EnablePath(root, event),
                                      bool_to_str(enable)).ok)
         IN  IF ~w.ok /\ enable /\ event.required
             THEN [entries |-> Append(acc, w), ok |-> FALSE]
             ELSE enable_events_unprobed(root, events, j + 1, enable,
                                         Append(acc, w))

RECURSIVE enable_events(_, _, _, _, _)
\* the `for event in category.events.iter()` loop, from index j on;
\* acc holds the entries issued so far
enable_events(root, events, j, enable, acc) ==
    IF j > Len(events) THEN [entries |-> acc, ok |-> TRUE]
    ELSE LET event == events[j] IN
         IF ~exists(SubsystemDir(root, event))
         THEN IF event.required
              THEN [entries |-> acc, ok |-> FALSE]
              ELSE enable_events(root, events, j + 1, enable, acc)
         ELSE LET w == write_file(EnablePath(root, event), bool_to_str(enable))
              IN  IF ~w.ok /\ enable /\ event.required
                  THEN [entries |-> Append(acc, w), ok |-> FALSE]
                  ELSE enable_events(root, events, j + 1, enable,
                                     Append(acc, w))

enable_category(root, category, enable) ==
    enable_events(root, category.events, 1, enable, <<>>)

(***************************************************************************)
(* The environment: inputs of one session.                                 *)
(***************************************************************************)
ArgUniverse == CategoryNames \cup {"-h", "bogus"}

\* the command lines tried: none, every single argument, some pairs in
\* both orders, and a repeated name
ArgVectors ==
    {<<>>} \cup {<<a>> : a \in ArgUniverse}
           \cup {<<"sched", "idle">>, <<"idle", "sched">>,
                 <<"fence", "kvm">>, <<"kvm", "fence">>,
                 <<"irq", "bogus">>, <<"idle", "idle">>}

\* line 448: Iterator::collect into a HashSet
collect(v) == {v[k] : k \in 1..Len(v)}

ArgSets == {collect(v) : v \in ArgVectors}

AllEvents ==
    UNION {{CATEGORIES[i].events[j] : j \in 1..Len(CATEGORIES[i].events)} :
           i \in 1..NCat}

ControlFiles == {
    <<"options", "overwrite">>, <<"options", "record-tgid">>,
    <<"options", "print-tgid">>, <<"buffer_size_kb">>, <<"trace_clock">>,
    <<"current_tracer">>, <<"set_ftrace_filter">>, <<"tracing_on">>,
    <<"trace">>, <<"tmp.trace">> }

FaultUniverse ==
    {<<"missing", Rel(SubsystemDir(tracefs_dirs[1], e))>> : e \in AllEvents}
    \cup {<<"nowrite", Rel(EnablePath(tracefs_dirs[1], e))>> : e \in AllEvents}
    \cup {<<"nowrite", p>> : p \in ControlFiles}
    \cup {<<"noread", <<"trace_clock">>>>, <<"noread", <<"trace">>>>}

RECURSIVE SubsetsUpTo(_, _)
SubsetsUpTo(S, n) ==
    IF n = 0 THEN {{}}
    ELSE LET P == SubsetsUpTo(S, n - 1) IN
         P \cup {s \cup {x} : s \in P, x \in S}

\* in how many ways the environment departs from the nominal one
Departures(p, c, f) ==
    Cardinality(f) + (IF p = Roots THEN 0 ELSE 1)
                   + (IF c = NominalClock THEN 0 ELSE 1)

MainInit ==
    /\ argv \in ArgVectors
    /\ args = collect(argv)
    /\ present \in SUBSET Roots
    /\ clock_text \in ClockTexts
    /\ faults \in SubsetsUpTo(FaultUniverse, MaxFaults)
    /\ Departures(present, clock_text, faults) <= MaxFaults
    /\ pc = "start"
    /\ tracefs = None
    /\ log = <<>>
    /\ exit_status = <<>>
    /\ panic_msg = <<>>

\* main() is not running
MainIdle ==
    /\ argv = <<>>
    /\ args = {}
    /\ present = {}
    /\ clock_text = <<>>
    /\ faults = {}
    /\ pc = "idle"
    /\ tracefs = None
    /\ log = <<>>
    /\ exit_status = <<>>
    /\ panic_msg = <<>>

\* sleep() has not been called: src/sleep.rs line 6, and the platform default
SleepInit ==
    /\ secs \in 0..MaxSecs
    /\ s_pc = "call"
    /\ h_pc = None
    /\ SIGNAL = None
    /\ sigint = "SIG_DFL"
    /\ mutex = None
    /\ notified = FALSE
    /\ elapsed = 0
    /\ delivered = 0
    /\ outcome = "running"

\* sleep() is never called (main() uses thread::sleep)
SleepIdle ==
    /\ secs = 0
    /\ s_pc = "idle"
    /\ h_pc = None
    /\ SIGNAL = None
    /\ sigint = "SIG_DFL"
    /\ mutex = None
    /\ notified = FALSE
    /\ elapsed = 0
    /\ delivered = 0
    /\ outcome = "running"

\* Tracer::new(), src/ftrace.rs lines 20-26
TracerNew ==
    /\ t_tracefs = ""
    /\ last_err_kind = None
    /\ last_err_path = None
    /\ t_log = <<>>

Init == MainInit /\ SleepIdle /\ TracerNew

(***************************************************************************)
(* main(), one action per statement; each of the two loops over            *)
(* CATEGORIES is one action.                                               *)
(***************************************************************************)
Env == <<argv, args, present, faults, clock_text>>

\* the process has not terminated
Running == exit_status = <<>>

\* panic!(msg): the process ends with status 101 at the statement pc names
Panic(msg) ==
    /\ pc' = pc
    /\ exit_status' = <<101>>
    /\ panic_msg' = msg

NoPanic == UNCHANGED <<exit_status, panic_msg>>

\* one file operation whose Err is unwrapped
Unwrapped(entry, next) ==
    /\ log' = Append(log, entry)
    /\ IF entry.ok THEN pc' = next /\ NoPanic ELSE Panic(<<"unwrap on Err">>)
    /\ UNCHANGED <<Env, tracefs>>

\* one file operation whose result is discarded with `let _ =`
Discarded(entry, next) ==
    /\ log' = Append(log, entry)
    /\ pc' = next
    /\ NoPanic
    /\ UNCHANGED <<Env, tracefs>>

Usage ==
    /\ Running /\ pc = "start"
    /\ "-h" \in args
    /\ pc' = "usage"
    /\ exit_status' = <<0>>
    /\ UNCHANGED <<Env, tracefs, log, panic_msg>>
    /\ UNCHANGED OutsideMain

\* FindTracefs with a fallback to the first candidate instead of the panic
FindTracefs_fallback ==
    /\ Running /\ pc = "start"
    /\ "-h" \notin args
    /\ tracefs' = IF find_tracefs = None THEN tracefs_dirs[1] ELSE find_tracefs
    /\ pc' = "overwrite"
    /\ NoPanic
    /\ UNCHANGED <<Env, log>>
    /\ UNCHANGED OutsideMain

FindTracefs ==
    /\ Running /\ pc = "start"
    /\ "-h" \notin args
    /\ tracefs' = find_tracefs
    /\ IF find_tracefs = None THEN Panic(<<"failed to locate tracefs">>)
       ELSE pc' = "overwrite" /\ NoPanic
    /\ UNCHANGED <<Env, log>>
    /\ UNCHANGED OutsideMain

SetOverwrite ==
    /\ Running /\ pc = "overwrite"
    /\ Unwrapped(set_option(tracefs, "overwrite", bool_to_str(TRUE)),
                 "record_tgid")
    /\ UNCHANGED OutsideMain

SetRecordTgid ==
    /\ Running /\ pc = "record_tgid"
    /\ LET w == set_option(tracefs, "record-tgid", bool_to_str(TRUE)) IN
       /\ log' = Append(log, w)
       /\ pc' = IF w.ok THEN "buffer_size_kb" ELSE "print_tgid"
    /\ NoPanic
    /\ UNCHANGED <<Env, tracefs>>
    /\ UNCHANGED OutsideMain

SetPrintTgid ==
    /\ Running /\ pc = "print_tgid"
    /\ Unwrapped(set_option(tracefs, "print-tgid", bool_to_str(TRUE)),
                 "buffer_size_kb")
    /\ UNCHANGED OutsideMain

SetBufferSizeKb ==
    /\ Running /\ pc = "buffer_size_kb"
    /\ Unwrapped(set_buffer_size_kb(tracefs, "32768"), "trace_clock")
    /\ UNCHANGED OutsideMain

SetTraceClock ==
    /\ Running /\ pc = "trace_clock"
    /\ LET r == set_trace_clock(tracefs) IN
       /\ log' = log \o r.entries
       /\ IF r.result = "ok" THEN pc' = "current_tracer" /\ NoPanic
          ELSE IF r.result = "err" THEN Panic(<<"unwrap on Err">>)
          ELSE Panic(<<"explicit panic">>)
    /\ UNCHANGED <<Env, tracefs>>
    /\ UNCHANGED OutsideMain

SetCurrentTracer ==
    /\ Running /\ pc = "current_tracer"
    /\ Unwrapped(set_current_tracer(tracefs, "nop"), "set_ftrace_filter")
    /\ UNCHANGED OutsideMain

SetFtraceFilter ==
    /\ Running /\ pc = "set_ftrace_filter"
    /\ Unwrapped(set_ftrace_filter(tracefs), "enable")
    /\ UNCHANGED OutsideMain

\* explicitly_enabled with a category that was not named taken as implicit
explicitly_enabled_all(category) ==
    IF args = {} THEN "Some(false)"
    ELSE IF category.name \in args THEN "Some(true)"
    ELSE "Some(false)"

\* Option<bool> of lines 481-486
explicitly_enabled(category) ==
    IF args = {} THEN "Some(false)"
    ELSE IF category.name \in args THEN "Some(true)"
    ELSE "None"

RECURSIVE enable_loop_argv(_, _)
\* an enable loop that walks the command line instead of the catalog
enable_loop_argv(i, acc) ==
    IF i > (IF argv = <<>> THEN NCat ELSE Len(argv))
    THEN [entries |-> acc, failed |-> None]
    ELSE LET cats == IF argv = <<>> THEN {i}
                     ELSE {c \in 1..NCat : CATEGORIES[c].name = argv[i]}
         IN  IF cats = {} THEN enable_loop_argv(i + 1, acc)
             ELSE LET category == CATEGORIES[CHOOSE c \in cats : TRUE]
                      r == enable_category(tracefs, category, TRUE)
                  IN  IF ~r.ok /\ argv # <<>>
                      THEN [entries |-> acc \o r.entries,
                            failed |-> category.name]
                      ELSE enable_loop_argv(i + 1, acc \o r.entries)

RECURSIVE enable_loop(_, _)
\* the `for category in CATEGORIES.iter()` loop of lines 480-499, from
\* index i on; acc holds the entries issued so far
enable_loop(i, acc) ==
    IF i > NCat THEN [entries |-> acc, failed |-> None]
    ELSE LET category == CATEGORIES[i]
             required == explicitly_enabled(category)
         IN  IF required = "None" THEN enable_loop(i + 1, acc)
             ELSE LET r == enable_category(tracefs, category, TRUE) IN
                  IF ~r.ok /\ required = "Some(true)"
                  THEN [entries |-> acc \o r.entries,
                        failed |-> category.name]
                  ELSE enable_loop(i + 1, acc \o r.entries)

EnableCategories ==
    /\ Running /\ pc = "enable"
    /\ LET r == enable_loop(1, <<>>) IN
       /\ log' = log \o r.entries
       /\ IF r.failed # None THEN Panic(<<"failed to enable", r.failed>>)
          ELSE pc' = "tracing_on" /\ NoPanic
    /\ UNCHANGED <<Env, tracefs>>
    /\ UNCHANGED OutsideMain

TracingOn ==
    /\ Running /\ pc = "tracing_on"
    /\ Unwrapped(set_tracing_on(tracefs, TRUE), "clear_trace")
    /\ UNCHANGED OutsideMain

\* a session that does not truncate the buffer after turning tracing on
ClearTrace_skip ==
    /\ Running /\ pc = "clear_trace"
    /\ pc' = "sleep"
    /\ UNCHANGED <<Env, tracefs, log, exit_status, panic_msg>>
    /\ UNCHANGED OutsideMain

ClearTrace ==
    /\ Running /\ pc = "clear_trace"
    /\ Discarded(clear_trace(tracefs), "sleep")
    /\ UNCHANGED OutsideMain

\* thread::sleep(5 s)
Sleep ==
    /\ Running /\ pc = "sleep"
    /\ pc' = "tracing_off"
    /\ UNCHANGED <<Env, tracefs, log, exit_status, panic_msg>>
    /\ UNCHANGED OutsideMain

\* TracingOff writing the "on" value once more
TracingOff_on ==
    /\ Running /\ pc = "tracing_off"
    /\ Discarded(set_tracing_on(tracefs, TRUE), "dump_trace")
    /\ UNCHANGED OutsideMain

TracingOff ==
    /\ Running /\ pc = "tracing_off"
    /\ Discarded(set_tracing_on(tracefs, FALSE), "dump_trace")
    /\ UNCHANGED OutsideMain

DumpTrace ==
    /\ Running /\ pc = "dump_trace"
    /\ log' = log \o dump_trace(tracefs, "tmp.trace").entries
    /\ pc' = "clear_trace_after"
    /\ NoPanic
    /\ UNCHANGED <<Env, tracefs>>
    /\ UNCHANGED OutsideMain

ClearTraceAfter ==
    /\ Running /\ pc = "clear_trace_after"
    /\ Discarded(clear_trace(tracefs), "disable")
    /\ UNCHANGED OutsideMain

RECURSIVE disable_loop(_, _)
\* the `for category in CATEGORIES.iter()` loop of lines 512-514
disable_loop(i, acc) ==
    IF i > NCat THEN acc
    ELSE disable_loop(i + 1,
             acc \o enable_category(tracefs, CATEGORIES[i], FALSE).entries)

\* the cleanup loop, then main returns
DisableCategories ==
    /\ Running /\ pc = "disable"
    /\ log' = log \o disable_loop(1, <<>>)
    /\ pc' = "done"
    /\ exit_status' = <<0>>
    /\ UNCHANGED <<Env, tracefs, panic_msg>>
    /\ UNCHANGED OutsideMain

Next ==
    \/ Usage
    \/ FindTracefs
    \/ SetOverwrite
    \/ SetRecordTgid
    \/ SetPrintTgid
    \/ SetBufferSizeKb
    \/ SetTraceClock
    \/ SetCurrentTracer
    \/ SetFtraceFilter
    \/ EnableCategories
    \/ TracingOn
    \/ ClearTrace
    \/ Sleep
    \/ TracingOff
    \/ DumpTrace
    \/ ClearTraceAfter
    \/ DisableCategories

Spec == Init /\ [][Next]_vars

(***************************************************************************)
(* src/sleep.rs.  The process has one thread: a SIGINT whose disposition   *)
(* is signal_handler interrupts sleep() where it stands and the handler    *)
(* runs to its end on the same thread before sleep() goes on.              *)
(***************************************************************************)
Alive == outcome = "running"

\* the thread is in sleep() and not in the handler
InSleep(at) == Alive /\ h_pc = None /\ s_pc = at

SleepFrame == UNCHANGED <<secs, delivered, outcome, h_pc>>

\* line 18: signal.0.lock() on the fresh mutex
SleepLock ==
    /\ InSleep("call")
    /\ mutex' = "sleep"
    /\ s_pc' = "set_signal"
    /\ SleepFrame
    /\ UNCHANGED <<SIGNAL, sigint, notified, elapsed>>
    /\ UNCHANGED OutsideSleep

\* sleep() that installs the handler without filling the slot
SleepSetSignal_skip ==
    /\ InSleep("set_signal")
    /\ s_pc' = "install"
    /\ SleepFrame
    /\ UNCHANGED <<SIGNAL, sigint, mutex, notified, elapsed>>
    /\ UNCHANGED OutsideSleep

\* line 21: SIGNAL = Some(signal.clone())
SleepSetSignal ==
    /\ InSleep("set_signal")
    /\ SIGNAL' = "Some"
    /\ s_pc' = "install"
    /\ SleepFrame
    /\ UNCHANGED <<sigint, mutex, notified, elapsed>>
    /\ UNCHANGED OutsideSleep

\* line 22: libc::signal(SIGINT, signal_handler)
SleepInstall ==
    /\ InSleep("install")
    /\ sigint' = "signal_handler"
    /\ s_pc' = "wait"
    /\ SleepFrame
    /\ UNCHANGED <<SIGNAL, mutex, notified, elapsed>>
    /\ UNCHANGED OutsideSleep

\* line 25, wait_timeout: the mutex is released and the thread blocks
WaitBegin ==
    /\ InSleep("wait")
    /\ mutex' = None
    /\ s_pc' = "waiting"
    /\ SleepFrame
    /\ UNCHANGED <<SIGNAL, sigint, notified, elapsed>>
    /\ UNCHANGED OutsideSleep

\* one more second goes by in wait_timeout
WaitTick ==
    /\ InSleep("waiting")
    /\ ~notified
    /\ elapsed < secs
    /\ elapsed' = elapsed + 1
    /\ SleepFrame
    /\ UNCHANGED <<s_pc, SIGNAL, sigint, mutex, notified>>
    /\ UNCHANGED OutsideSleep

\* wait_timeout wakes up, by notification or because dur has elapsed, and
\* takes the mutex again
WaitEnd ==
    /\ InSleep("waiting")
    /\ notified \/ elapsed = secs
    /\ mutex = None
    /\ mutex' = "sleep"
    /\ s_pc' = "drop_guard"
    /\ SleepFrame
    /\ UNCHANGED <<SIGNAL, sigint, notified, elapsed>>
    /\ UNCHANGED OutsideSleep

\* line 25, `let _ =`: the guard wait_timeout returned is dropped
DropGuard ==
    /\ InSleep("drop_guard")
    /\ mutex' = None
    /\ s_pc' = "restore"
    /\ SleepFrame
    /\ UNCHANGED <<SIGNAL, sigint, notified, elapsed>>
    /\ UNCHANGED OutsideSleep

\* sleep() that leaves the handler installed
SleepRestore_leak ==
    /\ InSleep("restore")
    /\ s_pc' = "clear_signal"
    /\ SleepFrame
    /\ UNCHANGED <<SIGNAL, sigint, mutex, notified, elapsed>>
    /\ UNCHANGED OutsideSleep

\* line 28: libc::signal(SIGINT, SIG_DFL)
SleepRestore ==
    /\ InSleep("restore")
    /\ sigint' = "SIG_DFL"
    /\ s_pc' = "clear_signal"
    /\ SleepFrame
    /\ UNCHANGED <<SIGNAL, mutex, notified, elapsed>>
    /\ UNCHANGED OutsideSleep

\* line 29: SIGNAL = None, and sleep() returns
SleepClearSignal ==
    /\ InSleep("clear_signal")
    /\ SIGNAL' = None
    /\ s_pc' = "returned"
    /\ SleepFrame
    /\ UNCHANGED <<sigint, mutex, notified, elapsed>>
    /\ UNCHANGED OutsideSleep

\* a SIGINT is delivered: the handler starts, or the default disposition
\* terminates the process
Sigint ==
    /\ Alive
    /\ h_pc = None
    /\ delivered < MaxSignals
    /\ delivered' = delivered + 1
    /\ IF sigint = "signal_handler"
       THEN h_pc' = "unwrap" /\ UNCHANGED outcome
       ELSE outcome' = "killed" /\ UNCHANGED h_pc
    /\ UNCHANGED <<secs, s_pc, SIGNAL, sigint, mutex, notified, elapsed>>
    /\ UNCHANGED OutsideSleep

\* line 9: SIGNAL.as_ref().unwrap()
HandlerUnwrap ==
    /\ Alive
    /\ h_pc = "unwrap"
    /\ IF SIGNAL = None
       THEN outcome' = "panic" /\ UNCHANGED h_pc
       ELSE h_pc' = "lock" /\ UNCHANGED outcome
    /\ UNCHANGED <<secs, s_pc, SIGNAL, sigint, mutex, notified, elapsed,
                   delivered>>
    /\ UNCHANGED OutsideSleep

\* line 10: signal.0.lock().  A lock of a mutex the same thread holds does
\* not return: std leaves open whether it deadlocks or panics.
HandlerLock ==
    /\ Alive
    /\ h_pc = "lock"
    /\ IF mutex = None
       THEN mutex' = "signal_handler" /\ h_pc' = "notify" /\ UNCHANGED outcome
       ELSE outcome' \in {"deadlock", "panic"} /\ UNCHANGED <<mutex, h_pc>>
    /\ UNCHANGED <<secs, s_pc, SIGNAL, sigint, notified, elapsed, delivered>>
    /\ UNCHANGED OutsideSleep

\* line 11: signal.1.notify_one() wakes the thread if it is in wait_timeout
HandlerNotify ==
    /\ Alive
    /\ h_pc = "notify"
    /\ notified' = (notified \/ s_pc = "waiting")
    /\ h_pc' = "return"
    /\ UNCHANGED <<secs, s_pc, SIGNAL, sigint, mutex, elapsed, delivered,
                   outcome>>
    /\ UNCHANGED OutsideSleep

\* line 12: the guard is dropped and the handler returns
HandlerReturn ==
    /\ Alive
    /\ h_pc = "return"
    /\ mutex' = None
    /\ h_pc' = None
    /\ UNCHANGED <<secs, s_pc, SIGNAL, sigint, notified, elapsed, delivered,
                   outcome>>
    /\ UNCHANGED OutsideSleep

NextSleep ==
    \/ SleepLock
    \/ SleepSetSignal
    \/ SleepInstall
    \/ WaitBegin
    \/ WaitTick
    \/ WaitEnd
    \/ DropGuard
    \/ SleepRestore
    \/ SleepClearSignal
    \/ Sigint
    \/ HandlerUnwrap
    \/ HandlerLock
    \/ HandlerNotify
    \/ HandlerReturn

InitSleep == SleepInit /\ MainIdle /\ TracerNew

SpecSleep == InitSleep /\ [][NextSleep]_vars

(***************************************************************************)
(* Tracer: src/ftrace.rs.  A Tracer is driven by any sequence of at most   *)
(* MaxOps calls of its public operations.  The filesystem is `present`     *)
(* (the roots that are mounted; "" is the working directory, which the     *)
(* paths of a Tracer without a root are relative to) and `faults`.         *)
(***************************************************************************)
TracerRoots == Roots \cup {""}

\* the files the operations are called on
TracerPaths == {<<"trace">>, <<"tracing_on">>}

TracerFaults ==
    {<<"missing", <<"trace">>>>, <<"missing", <<"tracing_on">>>>,
     <<"nowrite", <<"tracing_on">>>>, <<"nowrite", <<"trace">>>>,
     <<"noread", <<"trace">>>>}

\* Path::join
join(root, path) == <<root>> \o path

\* fs::metadata: the io::ErrorKind of its Err, or None
fs_metadata(path) ==
    IF path[1] \notin present \/ <<"missing", Tail(path)>> \in faults
    THEN "NotFound" ELSE None

\* fs::File::create followed by write_all
fs_create(path) ==
    IF fs_metadata(path) # None THEN "NotFound"
    ELSE IF <<"nowrite", Tail(path)>> \in faults THEN "PermissionDenied"
    ELSE None

\* fs::File::open followed by read_to_string
fs_open(path) ==
    IF fs_metadata(path) # None THEN "NotFound"
    ELSE IF <<"noread", Tail(path)>> \in faults THEN "PermissionDenied"
    ELSE None

\* one call of a Tracer operation: the path it reached the filesystem with
\* and the io::ErrorKind it met, None on success
TEntry(call, path, val, kind) ==
    [call |-> call, path |-> path, val |-> val, kind |-> kind]

Called(entry) ==
    /\ Len(t_log) < MaxOps
    /\ t_log' = Append(t_log, entry)
    /\ UNCHANGED OutsideTracer

\* lines 39-41
has_err == last_err_kind # None

\* lines 43-45: either unwrap panics on None
get_err ==
    IF last_err_kind = None \/ last_err_path = None THEN <<"panic">>
    ELSE <<last_err_kind, last_err_path>>

\* a path_err that records the kind alone
path_err_kind_only(kind, path) ==
    /\ last_err_kind' = kind
    /\ UNCHANGED last_err_path

\* lines 47-50
path_err(kind, path) ==
    /\ last_err_kind' = kind
    /\ last_err_path' = path

\* lines 52-57
path_test(path) == fs_metadata(path)

\* the body shared by path_truncate, path_write and path_read: the latch is
\* written on Err and left alone on Ok
Latch(kind, path) ==
    IF kind # None THEN path_err(kind, path)
    ELSE UNCHANGED <<last_err_kind, last_err_path>>

\* lines 59-63
path_truncate(path) ==
    /\ Latch(fs_create(path), path)
    /\ Called(TEntry("truncate", path, "", fs_create(path)))

\* lines 65-74
path_write(path, val) ==
    /\ Latch(fs_create(path), path)
    /\ Called(TEntry("write", path, val, fs_create(path)))

\* lines 76-88
path_read(path) ==
    /\ Latch(fs_open(path), path)
    /\ Called(TEntry("read", path, "", fs_open(path)))

\* lines 28-37
SetTracefs ==
    \E root \in Roots :
        LET trace == join(root, <<"trace">>)
            kind == path_test(trace)
        IN  /\ last_err_kind' = kind
            /\ IF kind # None
               THEN last_err_path' = trace /\ UNCHANGED t_tracefs
               ELSE t_tracefs' = root /\ UNCHANGED last_err_path
            /\ Called(TEntry("set_tracefs", trace, "", kind))

\* lines 90-93
TracerTest ==
    \E path \in TracerPaths :
        /\ Called(TEntry("test", join(t_tracefs, path), "",
                         path_test(join(t_tracefs, path))))
        /\ UNCHANGED <<t_tracefs, last_err_kind, last_err_path>>

\* lines 95-98
TracerTruncate ==
    \E path \in TracerPaths :
        /\ path_truncate(join(t_tracefs, path))
        /\ UNCHANGED t_tracefs

\* lines 100-103
TracerWrite ==
    \E path \in TracerPaths :
        /\ path_write(join(t_tracefs, path), "nop")
        /\ UNCHANGED t_tracefs

\* lines 105-107
TracerWriteBool ==
    \E val \in BOOLEAN :
        /\ path_write(join(t_tracefs, <<"tracing_on">>), bool_to_str(val))
        /\ UNCHANGED t_tracefs

\* lines 109-111: i32::to_string of the buffer size main.rs asks for
TracerWriteI32 ==
    /\ path_write(join(t_tracefs, <<"trace">>), "32768")
    /\ UNCHANGED t_tracefs

\* lines 113-116
TracerRead ==
    \E path \in TracerPaths :
        /\ path_read(join(t_tracefs, path))
        /\ UNCHANGED t_tracefs

NextTracer ==
    \/ SetTracefs
    \/ TracerTest
    \/ TracerTruncate
    \/ TracerWrite
    \/ TracerWriteBool
    \/ TracerWriteI32
    \/ TracerRead

\* a fresh Tracer over a filesystem that departs from the nominal one (every
\* root mounted, every file accessible) in at most MaxFaults ways
InitTracer ==
    /\ TracerNew
    /\ SleepIdle
    /\ argv = <<>>
    /\ args = {}
    /\ clock_text = <<>>
    /\ pc = "idle"
    /\ tracefs = None
    /\ log = <<>>
    /\ exit_status = <<>>
    /\ panic_msg = <<>>
    /\ present \in SUBSET TracerRoots
    /\ faults \in SubsetsUpTo(TracerFaults, MaxFaults)
    /\ Cardinality(faults) + Cardinality(TracerRoots \ present) <= MaxFaults

SpecTracer == InitTracer /\ [][NextTracer]_vars

(***************************************************************************)
(* What the log shows.                                                     *)
(***************************************************************************)
IsEnableFile(path) == path # <<>> /\ path[Len(path)] = "enable"

\* the enable files that got a write attempt of val ("1" on, "0" off)
Attempts(val) ==
    {log[k].path : k \in {n \in 1..Len(log) :
        /\ log[n].op = "write" /\ log[n].val = val
        /\ IsEnableFile(log[n].path)}}

\* the enable files that took a write of val
Writes(val) ==
    {log[k].path : k \in {n \in 1..Len(log) :
        /\ log[n].op = "write" /\ log[n].val = val /\ log[n].ok
        /\ IsEnableFile(log[n].path)}}

EventIds == {<<i, j>> \in (1..NCat) \X (1..12) : j <= Len(CATEGORIES[i].events)}

EventOf(id) == CATEGORIES[id[1]].events[id[2]]

PathOf(id) == EnablePath(tracefs, EventOf(id))

Named(id) == CATEGORIES[id[1]].name \in args

\* the event can be turned on: its subsystem directory exists and its enable
\* file takes a write
Available(e) ==
    /\ exists(SubsystemDir(tracefs, e))
    /\ <<"nowrite", Rel(EnablePath(tracefs, e))>> \notin faults

\* the loop of lines 480-499 has just run, to its end or to its panic; no
\* later statement writes "1" to an enable file (C15)
EnableLoopRan ==
    \/ pc = "tracing_on" /\ Running
    \/ pc = "enable" /\ ~Running

(***************************************************************************)
(* C1.  Implicit mode is all-or-nothing per category: when a required      *)
(* event of a category is unavailable, no enable file of that category     *)
(* takes an "on" write.                                                    *)
(***************************************************************************)
C1_ImplicitAllOrNothing ==
    (args = {} /\ tracefs # None) =>
        \A i \in 1..NCat :
            (\E id \in EventIds : /\ id[1] = i
                                  /\ EventOf(id).required
                                  /\ ~Available(EventOf(id)))
            => \A id \in EventIds : id[1] = i => PathOf(id) \notin Writes("1")

(***************************************************************************)
(* C2, as stated.  Explicit mode: once the enable phase is over, the "on"  *)
(* writes attempted are those of every required event of every named       *)
(* category, and of an optional event of a named category iff it is        *)
(* available; no event of a category that was not named is attempted.      *)
(***************************************************************************)
C2_ExplicitResolution ==
    (EnableLoopRan /\ args # {}) =>
        \A id \in EventIds :
            PathOf(id) \in Attempts("1")
                <=> (Named(id) /\ (EventOf(id).required \/ Available(EventOf(id))))

\* a required event that cannot be turned on ends enable_category with Err
Stops(id) == EventOf(id).required /\ ~Available(EventOf(id))

\* category i is named and one of its required events is unavailable
CategoryStops(i) ==
    /\ CATEGORIES[i].name \in args
    /\ \E j \in 1..Len(CATEGORIES[i].events) : Stops(<<i, j>>)

\* no unavailable required event of a named category comes before id in
\* catalog order
Unstopped(id) ==
    /\ \A j \in 1..(id[2] - 1) : ~Stops(<<id[1], j>>)
    /\ \A i \in 1..(id[1] - 1) : ~CategoryStops(i)

(***************************************************************************)
(* C2, amended.  Explicit mode: once the enable phase is over, an "on"     *)
(* write has been attempted for an event iff its category was named, its   *)
(* subsystem directory exists, and no unavailable required event of a      *)
(* named category precedes it in catalog order; the session panics in the  *)
(* enable phase iff some named category has an unavailable required event. *)
(***************************************************************************)
C2_ExplicitEnable ==
    (EnableLoopRan /\ args # {}) =>
        /\ Attempts("1") =
               {PathOf(id) : id \in {d \in EventIds :
                   /\ Named(d)
                   /\ exists(SubsystemDir(tracefs, EventOf(d)))
                   /\ Unstopped(d)}}
        /\ (pc = "enable" /\ exit_status = <<101>>)
               <=> \E i \in 1..NCat : CategoryStops(i)

\* explicit mode, and an optional event that is not available was attempted
C2_Witness ==
    /\ EnableLoopRan /\ args # {}
    /\ \E id \in EventIds :
           /\ Named(id) /\ ~EventOf(id).required /\ ~Available(EventOf(id))
           /\ PathOf(id) \in Attempts("1")

(***************************************************************************)
(* C3.  A failure ends the forward phases (nothing is issued after the     *)
(* operation that failed), and every execution that located the tracing    *)
(* filesystem runs the disable-events cleanup before it terminates.        *)
(***************************************************************************)
C3_AbortThenCleanup ==
    /\ panic_msg = <<"unwrap on Err">> => ~log[Len(log)].ok
    /\ (~Running /\ tracefs # None) => pc = "done"

IsTracingOn(e, val) ==
    e.op = "write" /\ Rel(e.path) = <<"tracing_on">> /\ e.val = val

\* an operation of dump_trace: the read of the buffer or the write of the file
IsDump(e) ==
    \/ e.op = "read" /\ Rel(e.path) = <<"trace">>
    \/ e.op = "write" /\ e.path = <<"tmp.trace">>

Located == pc \notin {"idle", "usage"} /\ (pc = "start" => ~Running)

(***************************************************************************)
(* C6.  find_tracefs returns the first candidate of tracefs_dirs, in list  *)
(* order, whose trace file exists, None when there is none, and writes     *)
(* nothing while it probes.                                                *)
(***************************************************************************)
C6_LocatorFirstUsable ==
    Located =>
        /\ \A i \in 1..Len(tracefs_dirs) :
               tracefs = tracefs_dirs[i]
                   <=> /\ tracefs_dirs[i] \in present
                       /\ \A j \in 1..(i - 1) : tracefs_dirs[j] \notin present
        /\ tracefs = None <=> present = {}
        /\ (pc = "start" \/ (pc = "overwrite" /\ Running)) => log = <<>>

\* both candidates are usable and the first one was returned
C6_Witness ==
    /\ pc = "overwrite"
    /\ present = Roots
    /\ tracefs = tracefs_dirs[1]

(***************************************************************************)
(* C7.  When no candidate root is usable the process ends in find_tracefs  *)
(* with a non-zero status and the report "failed to locate tracefs", and   *)
(* no write, truncate or enable operation is ever issued.                  *)
(***************************************************************************)
C7_NotFoundIsFatal ==
    (present = {} /\ "-h" \notin args /\ pc # "idle") =>
        /\ pc = "start"
        /\ log = <<>>
        /\ ~Running => /\ exit_status = <<101>>
                       /\ panic_msg = <<"failed to locate tracefs">>

\* the process has ended because no candidate was usable
C7_Witness ==
    /\ present = {}
    /\ exit_status = <<101>>
    /\ panic_msg = <<"failed to locate tracefs">>

\* set_trace_clock has run and could read trace_clock
ClockScanned ==
    /\ pc \notin {"idle", "start", "usage", "overwrite", "record_tgid",
                  "print_tgid", "buffer_size_kb"}
    /\ pc = "trace_clock" => ~Running
    /\ <<"noread", <<"trace_clock">>>> \notin faults

IsClockWrite(e) == e.op = "write" /\ Rel(e.path) = <<"trace_clock">>

\* the values written to trace_clock, in order
ClockWrites ==
    LET w == SelectSeq(log, IsClockWrite) IN [k \in 1..Len(w) |-> w[k].val]

(***************************************************************************)
(* C8, as stated.  The text "boot mono global" gets exactly one write, of  *)
(* boot; the text "boot mono [global]" gets no write.                      *)
(***************************************************************************)
C8_ClockSelection ==
    ClockScanned =>
        /\ clock_text = Text(<<"boot", " ", "mono", " ", "global">>)
               => ClockWrites = <<"boot">>
        /\ clock_text = Text(<<"boot", " ", "mono", " ", "[", "global", "]">>)
               => ClockWrites = <<>>

(***************************************************************************)
(* C8, amended.  The text "boot mono global" gets exactly one write, of    *)
(* boot, and so does "boot mono [global]" (boot is preferred and is not    *)
(* the bracketed clock); the text "[boot] mono global" gets no write.      *)
(***************************************************************************)
C8_ClockSelectionBoot ==
    ClockScanned =>
        /\ clock_text = Text(<<"boot", " ", "mono", " ", "global">>)
               => ClockWrites = <<"boot">>
        /\ clock_text = Text(<<"boot", " ", "mono", " ", "[", "global", "]">>)
               => ClockWrites = <<"boot">>
        /\ clock_text = Text(<<"[", "boot", "]", " ", "mono", " ", "global">>)
               => ClockWrites = <<>>

\* "boot mono [global]" was read and boot was written
C8_Witness ==
    /\ ClockScanned
    /\ clock_text = Text(<<"boot", " ", "mono", " ", "[", "global", "]">>)
    /\ ClockWrites = <<"boot">>

\* an operation op on the file rel (below the root) returned Err
Failed(op, rel) ==
    \E k \in 1..Len(log) :
        log[k].op = op /\ Rel(log[k].path) = rel /\ ~log[k].ok

\* a phase failed: tracefs not found, an option not applied, a named
\* category not enabled, tracing not turned on, the buffer not dumped
PhaseFailed ==
    \/ tracefs = None
    \/ Failed("write", <<"options", "overwrite">>)
    \/ Failed("write", <<"options", "print-tgid">>)
    \/ Failed("write", <<"buffer_size_kb">>)
    \/ Failed("read", <<"trace_clock">>)
    \/ Failed("write", <<"trace_clock">>)
    \/ panic_msg = <<"explicit panic">>
    \/ Failed("write", <<"current_tracer">>)
    \/ Failed("truncate", <<"set_ftrace_filter">>)
    \/ (pc = "enable" /\ panic_msg # <<>>)
    \/ Failed("write", <<"tracing_on">>)
    \/ Failed("read", <<"trace">>)
    \/ Failed("write", <<"tmp.trace">>)

(***************************************************************************)
(* C9.  The process exits with status 0 only when every phase succeeded,   *)
(* and with a non-zero status when locating the tracing filesystem, an     *)
(* options write, enabling events, turning tracing on or the dump failed.  *)
(***************************************************************************)
C9_ExitStatus ==
    (~Running /\ pc # "usage") => (exit_status = <<0>> <=> ~PhaseFailed)

(***************************************************************************)
(* C10.  sleep() always returns: a SIGINT that arrives while               *)
(* signal_handler is installed, the moments before wait_timeout has        *)
(* released the mutex included, is handled without panic or deadlock, and  *)
(* sleep() returns having waited no longer than secs.                      *)
(***************************************************************************)
C10_SleepReturns ==
    /\ outcome \notin {"deadlock", "panic"}
    /\ elapsed <= secs

(***************************************************************************)
(* C11.  Whenever sleep() is not executing, before its call and after its  *)
(* return by timeout or by interrupt, the disposition of SIGINT is the     *)
(* platform default and the SIGNAL slot is empty.                          *)
(***************************************************************************)
C11_HandlerScopedToWait ==
    s_pc \in {"idle", "call", "returned"} =>
        /\ sigint = "SIG_DFL"
        /\ SIGNAL = None
        /\ h_pc = None

\* sleep() returned early, woken by the handler
C11_Witness ==
    /\ s_pc = "returned"
    /\ notified
    /\ elapsed < secs
    /\ delivered > 0

(***************************************************************************)
(* C20.  While signal_handler is the disposition of SIGINT the SIGNAL slot *)
(* is filled, so the unwrap of line 9 never meets an empty slot.           *)
(***************************************************************************)
C20_SlotFilledWhileInstalled ==
    /\ sigint = "signal_handler" => SIGNAL # None
    /\ h_pc # None => SIGNAL # None
    /\ outcome = "panic" => h_pc = "lock"

\* the handler ran its unwrap on a delivered SIGINT and went on
C20_Witness ==
    /\ sigint = "signal_handler"
    /\ h_pc = "notify"
    /\ delivered > 0

\* an "on" write to an enable file
IsOnWrite(e) == e.op = "write" /\ e.val = "1" /\ IsEnableFile(e.path)

RECURSIVE CatalogFrom(_)
\* the events of categories i.. in declaration order
CatalogFrom(i) ==
    IF i > NCat THEN <<>>
    ELSE [j \in 1..Len(CATEGORIES[i].events) |-> <<i, j>>]
             \o CatalogFrom(i + 1)

CatalogOrder == CatalogFrom(1)

\* the event is one the enable phase tries to turn on, as a function of the
\* set of names given and of the filesystem only
TriedOn(id) ==
    /\ args = {} \/ Named(id)
    /\ exists(SubsystemDir(tracefs, EventOf(id)))
    /\ \A j \in 1..(id[2] - 1) : ~Stops(<<id[1], j>>)
    /\ args # {} => \A i \in 1..(id[1] - 1) : ~CategoryStops(i)

(***************************************************************************)
(* C12.  The "on" writes to enable files are issued in catalog order,      *)
(* categories in declaration order and events in declaration order within  *)
(* a category, whatever the order of the names on the command line: the    *)
(* sequence is a function of the set of names and of the filesystem.       *)
(***************************************************************************)
C12_EnableOrder ==
    EnableLoopRan =>
        LET on == SelectSeq(log, IsOnWrite)
            expected == SelectSeq(CatalogOrder, TriedOn)
        IN  [k \in 1..Len(on) |-> on[k].path]
                = [k \in 1..Len(expected) |-> PathOf(expected[k])]

\* idle was named before sched, and the events of sched were still turned
\* on before the event of idle
C12_Witness ==
    /\ argv = <<"idle", "sched">>
    /\ pc = "tracing_on"
    /\ \E k, m \in 1..Len(log) :
           /\ k < m
           /\ IsOnWrite(log[k]) /\ log[k].path[3] = "sched"
           /\ IsOnWrite(log[m]) /\ log[m].path[3] = "power"

(***************************************************************************)
(* C14.  Implicit mode: no enable file is written, on or off, for an event *)
(* whose subsystem directory events/<subsystem> does not exist.            *)
(***************************************************************************)
C14_NoWriteUnderMissingSubsystem ==
    args = {} =>
        \A k \in 1..Len(log) :
            IsEnableFile(log[k].path)
                => exists(SubSeq(log[k].path, 1, 3))

\* implicit mode, a subsystem directory is missing, and the enable phase
\* wrote the enable files of other subsystems of the same category
C14_Witness ==
    /\ args = {}
    /\ pc = "tracing_on"
    /\ \E id \in EventIds :
           /\ ~exists(SubsystemDir(tracefs, EventOf(id)))
           /\ \E id2 \in EventIds :
                  /\ id2[1] = id[1]
                  /\ id[2] < id2[2]
                  /\ PathOf(id2) \in Attempts("1")

\* a truncation of the trace buffer
IsClear(e) == e.op = "truncate" /\ Rel(e.path) = <<"trace">>

\* an operation of the options phase, lines 466-478
IsOption(e) ==
    \/ Rel(e.path) \in {<<"buffer_size_kb">>, <<"trace_clock">>,
                        <<"current_tracer">>, <<"set_ftrace_filter">>}
    \/ Len(e.path) = 3 /\ e.path[2] = "options"

\* the phase an operation other than a truncation of the buffer belongs to:
\* 1 options, 2 enable events, 3 tracing on, 4 tracing off, 5 dump,
\* 6 disable events
Phase(e) ==
    IF IsEnableFile(e.path) THEN (IF e.val = "1" THEN 2 ELSE 6)
    ELSE CASE IsOption(e) -> 1
           [] IsTracingOn(e, "1") -> 3
           [] IsTracingOn(e, "0") -> 4
           [] IsDump(e) -> 5
           [] OTHER -> 0

\* the phase of the k-th operation of the session; a truncation of the
\* buffer belongs to the phase of the operation it follows, to the options
\* phase when it comes first
PhaseAt(k) ==
    IF ~IsClear(log[k]) THEN Phase(log[k])
    ELSE IF k = 1 THEN 1 ELSE Phase(log[k - 1])

\* the phases of the operations of a session that has ended never go back
\* (the log only grows, so neither do those of any of its prefixes), and
\* tracing is turned on and off at most once
Sequential ==
    ~Running =>
    \A k \in 1..Len(log) :
        /\ PhaseAt(k) > 0
        /\ k > 1 =>
               IF Rel(log[k].path) = <<"tracing_on">>
               THEN PhaseAt(k - 1) < PhaseAt(k)
               ELSE PhaseAt(k - 1) <= PhaseAt(k)

(***************************************************************************)
(* C15, as stated.  The operations of a session follow the phases options, *)
(* enable events, tracing on, tracing off, dump, disable events, with no   *)
(* way back; and the trace buffer has been truncated before tracing is     *)
(* turned on.                                                              *)
(***************************************************************************)
C15_PhaseOrder ==
    /\ Sequential
    /\ \A k \in 1..Len(log) :
           IsTracingOn(log[k], "1") => \E m \in 1..(k - 1) : IsClear(log[m])

(***************************************************************************)
(* C15, amended.  The operations of a session follow the phases options,   *)
(* enable events, tracing on, tracing off, dump, disable events, with no   *)
(* way back.  The trace buffer is never truncated before tracing is turned *)
(* on: it is truncated right after the "on" write to tracing_on, before    *)
(* the wait, and once more right after the dump.                           *)
(***************************************************************************)
C15_PhaseOrderClearAfterOn ==
    /\ Sequential
    /\ ~Running =>
           \A k \in 1..Len(log) :
               IsClear(log[k]) =>
                   /\ k > 1
                   /\ \/ IsTracingOn(log[k - 1], "1") /\ log[k - 1].ok
                      \/ IsDump(log[k - 1])
    /\ pc = "sleep" =>
           /\ IsClear(log[Len(log)])
           /\ IsTracingOn(log[Len(log) - 1], "1")
    /\ pc = "disable" =>
           /\ IsClear(log[Len(log)])
           /\ IsDump(log[Len(log) - 1])

\* a session that went through every phase
C15_Witness ==
    /\ pc = "done"
    /\ \A p \in 1..6 : \E k \in 1..Len(log) : Phase(log[k]) = p
    /\ \E k \in 2..Len(log) : IsClear(log[k]) /\ IsTracingOn(log[k - 1], "1")

\* the calls of set_tracefs that succeeded
SetOk == {k \in 1..Len(t_log) :
             t_log[k].call = "set_tracefs" /\ t_log[k].kind = None}

(***************************************************************************)
(* C13.  Once set_tracefs has succeeded, the root of the Tracer is the     *)
(* root of its first successful call, whatever operations follow.          *)
(***************************************************************************)
C13_RootSetOnce ==
    \A k \in SetOk :
        (\A j \in SetOk : k <= j) => t_tracefs = t_log[k].path[1]

\* the calls of truncate, write and read that failed since the last call
\* of set_tracefs
FailedOps ==
    {k \in 1..Len(t_log) :
        /\ t_log[k].call \in {"truncate", "write", "read"}
        /\ t_log[k].kind # None
        /\ \A j \in k..Len(t_log) : t_log[j].call # "set_tracefs"}

(***************************************************************************)
(* C16.  After reads, writes and truncations of which at least one         *)
(* failed, the latched (kind, path) is that of the first one that failed.  *)
(***************************************************************************)
C16_FirstFailureLatched ==
    \A k \in FailedOps :
        (\A j \in FailedOps : k <= j)
            => /\ last_err_kind = t_log[k].kind
               /\ last_err_path = t_log[k].path

\* has_err() was true when call k returned
LatchedAfter(k) ==
    \E j \in 1..k :
        /\ t_log[j].kind # None
        /\ t_log[j].call # "test"
        /\ \A i \in (j + 1)..k :
               ~(t_log[i].call = "set_tracefs" /\ t_log[i].kind = None)

(***************************************************************************)
(* C17.  No read, write or truncation reaches the filesystem while         *)
(* has_err() is true.                                                      *)
(***************************************************************************)
C17_SkipAfterLatch ==
    \A m \in 2..Len(t_log) :
        t_log[m].call \in {"truncate", "write", "read"} => ~LatchedAfter(m - 1)

(***************************************************************************)
(* C19.  has_err() implies that the latched kind and the latched path are  *)
(* both present, so that get_err() does not panic.                         *)
(***************************************************************************)
C19_LatchComplete ==
    /\ has_err = (Len(t_log) > 0 /\ LatchedAfter(Len(t_log)))
    /\ has_err =>
           /\ last_err_path # None
           /\ get_err # <<"panic">>
           /\ get_err = <<last_err_kind, last_err_path>>

\* the latch was written by a failed read, and an earlier one by a failed
\* set_tracefs
C19_Witness ==
    /\ has_err
    /\ t_log # <<>>
    /\ t_log[Len(t_log)].call = "read"
    /\ t_log[Len(t_log)].kind # None
    /\ \E k \in 1..Len(t_log) :
           t_log[k].call = "set_tracefs" /\ t_log[k].kind # None

\* the clock name occurs in the text as a name of the list: a whole word,
\* bracketed or not
Mentions(val, name) ==
    LET pat == Chars(name) IN
    \E k \in 0..(Len(val) - Len(pat)) :
        /\ \A j \in 1..Len(pat) : val[k + j] = pat[j]
        /\ k = 0 \/ val[k] \in {" ", "["}
        /\ k + Len(pat) = Len(val) \/ val[k + Len(pat) + 1] \in {" ", "]"}

\* the name occurs in the text bracket-delimited
Bracketed(val, name) ==
    contains(val, <<"[">> \o Chars(name) \o <<"]">>)

(***************************************************************************)
(* C18.  When the text read from trace_clock mentions one of boot, mono,   *)
(* global, the first of them that the text mentions is selected: it is     *)
(* written once if the text does not show it in brackets and not at all    *)
(* if it does; nothing but boot, mono or global is ever written.           *)
(***************************************************************************)
C18_ClockProtocol ==
    ClockScanned =>
        /\ \A k \in 1..Len(preferred_clocks) :
               (/\ Mentions(clock_text, preferred_clocks[k])
                /\ \A j \in 1..(k - 1) :
                       ~Mentions(clock_text, preferred_clocks[j]))
               => ClockWrites =
                      IF Bracketed(clock_text, preferred_clocks[k])
                      THEN <<>> ELSE <<preferred_clocks[k]>>
        /\ \A k \in 1..Len(ClockWrites) :
               ClockWrites[k] \in {"boot", "mono", "global"}

TypeOK ==
    /\ pc \in {"start", "overwrite", "record_tgid", "print_tgid",
               "buffer_size_kb", "trace_clock", "current_tracer",
               "set_ftrace_filter", "enable", "tracing_on", "clear_trace",
               "sleep", "tracing_off", "dump_trace", "clear_trace_after",
               "disable", "done", "usage", "idle"}
    /\ args \in ArgSets
    /\ tracefs \in Roots \cup {None}
    /\ exit_status \in {<<>>, <<0>>, <<101>>}
    /\ pc \in {"done", "usage"} => exit_status = <<0>>
    /\ (panic_msg # <<>>) = (exit_status = <<101>>)
    /\ secs \in 0..MaxSecs
    /\ elapsed \in 0..secs
    /\ delivered \in 0..MaxSignals
    /\ s_pc \in {"idle", "call", "set_signal", "install", "wait", "waiting",
                 "drop_guard", "restore", "clear_signal", "returned"}
    /\ h_pc \in {None, "unwrap", "lock", "notify", "return"}
    /\ SIGNAL \in {None, "Some"}
    /\ sigint \in {"SIG_DFL", "signal_handler"}
    /\ mutex \in {None, "sleep", "signal_handler"}
    /\ outcome \in {"running", "deadlock", "panic", "killed"}

====
